---- MODULE Spec2Model ----
(***************************************************************************)
(* RawSocketCore (lib/rawsocketcore.go): the registry that maps an         *)
(* interface name to its pcapSession, the reaper goroutine                 *)
(* handlePcapSessionClose, and Close.  DialIP, ListenIP, the reaper and    *)
(* Close are translated statement by statement; every access to core.mu    *)
(* is a step of its own, and so is every unsynchronised read or write of   *)
(* core.isClosed.  pcapSession, ARPCache, RawIPConn and the route lookup   *)
(* are not part of rawsocketcore.go: they are modelled from the design     *)
(* document (sections 4.2 - 4.4, 6).                                       *)
(***************************************************************************)
EXTENDS Integers, FiniteSets, TLC

\* ---------------------------------------------------------------- bounds
\* The concurrent calls of DialIP / ListenIP and the concurrent calls of Close.
NumCallers == 2
NumClosers == 2

\* ------------------------------------------------------------- processes
Callers == 1..NumCallers
Closers == (NumCallers + 1)..(NumCallers + NumClosers)
Reaper == 0
FirstCaller == 1
FirstCloser == NumCallers + 1
Free == -1

\* A call creates at most one pcapSession and at most one RawIPConn.
SessionIds == 1..NumCallers
NoSession == 0
FlowIds == 1..NumCallers
NoFlow == 0

\* ----------------------------------------------------- the host's network
Ifaces == {"en0", "en1"}
NoIface == "none"
NoIP == "nil"
Wildcard == "any"
\* The (srcIP, dstIP) arguments of DialIP and the ip arguments of ListenIP.
DialArgs == {<<NoIP, "dA">>, <<NoIP, "dB">>, <<NoIP, "dN">>, <<"ip0", "dB">>, <<"ipX", "dA">>}
ListenArgs == {"ip1", "ipX"}
Protocols == {"icmp"}
Targets == {"dA", "gw"}

\* GetLocalIP(dstIP): the route resolver.  dA is on-link on en0, dB is
\* reached through the gateway gw on en1, dN has no route.
GetLocalIP(d) ==
  CASE d = "dA" -> [err |-> FALSE, srcIP |-> "ip0", iface |-> "en0", gatewayIP |-> NoIP]
    [] d = "dB" -> [err |-> FALSE, srcIP |-> "ip1", iface |-> "en1", gatewayIP |-> "gw"]
    [] OTHER    -> [err |-> TRUE, srcIP |-> NoIP, iface |-> NoIface, gatewayIP |-> NoIP]

\* findInterfaceByIP(ip): the interface that owns a local address.
findInterfaceByIP(ip) ==
  CASE ip = "ip0" -> [err |-> FALSE, iface |-> "en0"]
    [] ip = "ip1" -> [err |-> FALSE, iface |-> "en1"]
    [] OTHER      -> [err |-> TRUE, iface |-> NoIface]

\* The address whose hardware address pcapSession.dialIP resolves: the
\* gateway when the route has one, else the destination itself.
NextHop(d) ==
  IF GetLocalIP(d).err \/ GetLocalIP(d).gatewayIP = NoIP THEN d
  ELSE GetLocalIP(d).gatewayIP

VARIABLES
  mu,                  \* core.mu: Free, or the process that holds it
  pcapSessionMap,      \* core.pcapSessionMap: interface name -> session
  isClosed,            \* core.isClosed
  stopChan,            \* TRUE once core.stopChan is closed
  closeSigClosed,      \* TRUE once core.pcapSessionCloseSig is closed
  panicked,            \* "no", or the runtime panic that ended the process
  reaperPc, reaperPs,  \* handlePcapSessionClose: position, received session
  psKey, psState,      \* pcapSession: params.key, life cycle
  rawIPConnMap,        \* pcapSession.rawIPConnMap: the flows stored in it
  flows,               \* RawIPConn objects: owner, key, state
  arpEntries, arpPending, arpRequests, arpClosed,   \* ARPCache
  pc, op, proto, srcArg, srcIP, dstIP, iface, ps, conn, err, \* DialIP / ListenIP frames
  pcapSessions, closing,                            \* Close frames
  startedClosed        \* history: isClosed was set when the call was entered

coreVars == <<mu, pcapSessionMap, isClosed, stopChan, closeSigClosed, panicked>>
reaperVars == <<reaperPc, reaperPs>>
sessVars == <<psKey, psState, rawIPConnMap, flows>>
arpVars == <<arpEntries, arpPending, arpRequests, arpClosed>>
callVars == <<pc, op, proto, srcArg, srcIP, dstIP, iface, ps, conn, err, startedClosed>>
closeVars == <<pcapSessions, closing>>
vars == <<coreVars, reaperVars, sessVars, arpVars, callVars, closeVars>>

NoFlowRec == [ps |-> NoSession, local |-> NoIP, remote |-> NoIP, proto |-> "none", state |-> "none"]

\* NewRawSocketCore: empty map, open channels, the reaper started.
Init ==
  /\ mu = Free
  /\ pcapSessionMap = [i \in Ifaces |-> NoSession]
  /\ isClosed = FALSE
  /\ stopChan = FALSE
  /\ closeSigClosed = FALSE
  /\ panicked = "no"
  /\ reaperPc = "select"
  /\ reaperPs = NoSession
  /\ psKey = [s \in SessionIds |-> NoIface]
  /\ psState = [s \in SessionIds |-> "none"]
  /\ rawIPConnMap = [s \in SessionIds |-> {}]
  /\ flows = [f \in FlowIds |-> NoFlowRec]
  /\ arpEntries = {}
  /\ arpPending = [t \in Targets |-> NoSession]
  /\ arpRequests = [s \in SessionIds |-> [t \in Targets |-> 0]]
  /\ arpClosed = FALSE
  /\ pc = [p \in Callers \cup Closers |-> "idle"]
  /\ op = [p \in Callers |-> "none"]
  /\ proto = [p \in Callers |-> "none"]
  /\ srcArg = [p \in Callers |-> NoIP]
  /\ srcIP = [p \in Callers |-> NoIP]
  /\ dstIP = [p \in Callers |-> NoIP]
  /\ iface = [p \in Callers |-> NoIface]
  /\ ps = [p \in Callers |-> NoSession]
  /\ conn = [p \in Callers |-> NoFlow]
  /\ err = [p \in Callers |-> "none"]
  /\ pcapSessions = [c \in Closers |-> {}]
  /\ closing = [c \in Closers |-> NoSession]
  /\ startedClosed = [p \in Callers |-> FALSE]

Alive == panicked = "no"

\* ------------------------------------------------- pcapSession (design 4.2)
Created(s) == psState[s] # "none"
\* The handle is open and the reader goroutine is reading frames.
SessionOpen(s) == psState[s] = "open"
\* The reader has left its loop: the session is marked closed and its flows
\* are invalidated ("signalling": the reader is still blocked sending the
\* closed-event; "closed": the event was received and the reader is gone).
SessionClosed(s) == psState[s] \in {"signalling", "closed"}

\* The next unused session object.
FreshSession == CHOOSE s \in SessionIds : ~Created(s) /\ \A r \in SessionIds : r < s => Created(r)
FreshFlow == CHOOSE f \in FlowIds : flows[f].state = "none" /\ \A g \in FlowIds : g < f => flows[g].state # "none"

\* The reader's exit path: every flow of the session's table is invalidated.
InvalidateFlows(s) ==
  [f \in FlowIds |-> IF f \in rawIPConnMap[s] THEN [flows[f] EXCEPT !.state = "closed"] ELSE flows[f]]

\* The reader of session s leaves its loop (read error, or handle closed by
\* session.close): it marks the session closed, invalidates the flows and goes
\* on to send the closed-event on the unbuffered pcapSessionCloseSig.  A send
\* on a channel that Close has already closed panics.
ReaderExit(s) ==
  /\ psState' = [psState EXCEPT ![s] = "signalling"]
  /\ flows' = InvalidateFlows(s)
  /\ panicked' = IF closeSigClosed THEN "send on closed channel" ELSE panicked

\* The capture handle of an open session fails.
HandleFailure(s) ==
  /\ Alive
  /\ SessionOpen(s)
  /\ ReaderExit(s)
  /\ UNCHANGED <<mu, pcapSessionMap, isClosed, stopChan, closeSigClosed>>
  /\ UNCHANGED <<reaperVars, psKey, rawIPConnMap, arpVars, callVars, closeVars>>

\* RawIPConn.Close by its owner: the flow leaves its session's table and is
\* Closed.
FlowClose(f) ==
  /\ Alive
  /\ flows[f].state = "open"
  /\ \A p \in Callers : conn[p] = f => pc[p] = "done"
  /\ flows' = [flows EXCEPT ![f].state = "closed"]
  /\ rawIPConnMap' = [s \in SessionIds |-> IF s = flows[f].ps THEN rawIPConnMap[s] \ {f} ELSE rawIPConnMap[s]]
  /\ UNCHANGED <<coreVars, reaperVars, psKey, psState, arpVars, callVars, closeVars>>

\* ------------------------------------------------------------------ DialIP
\* Step 1 with the resolver's source address dropped (srcIP stays nil).
DialIPSourceKeepsArgument(src, dst) ==
  IF src = NoIP
  THEN LET r == GetLocalIP(dst)
       IN [err |-> IF r.err THEN "NoRoute" ELSE "none", srcIP |-> src, iface |-> r.iface]
  ELSE LET r == findInterfaceByIP(src)
       IN [err |-> IF r.err THEN "NotLocalAddress" ELSE "none", srcIP |-> src, iface |-> r.iface]

\* Step 1 with the error of findInterfaceByIP not returned: the call falls
\* back to the route resolver.
DialIPSourceFallsBack(src, dst) ==
  IF src = NoIP \/ findInterfaceByIP(src).err
  THEN LET r == GetLocalIP(dst)
       IN [err |-> IF r.err THEN "NoRoute" ELSE "none", srcIP |-> r.srcIP, iface |-> r.iface]
  ELSE [err |-> "none", srcIP |-> src, iface |-> findInterfaceByIP(src).iface]

\* Step 1 of DialIP: the source address and the interface of the call.
DialIPSource(src, dst) ==
  IF src = NoIP
  THEN LET r == GetLocalIP(dst)
       IN [err |-> IF r.err THEN "NoRoute" ELSE "none", srcIP |-> r.srcIP, iface |-> r.iface]
  ELSE LET r == findInterfaceByIP(src)
       IN [err |-> IF r.err THEN "NotLocalAddress" ELSE "none", srcIP |-> src, iface |-> r.iface]

\* DialIP up to the first critical section: step 1, and on success
\* core.mu.Lock(); ps, exists := core.pcapSessionMap[iface.Name]
DialIPCall(p, history) ==
  /\ Alive
  /\ pc[p] = "idle"
  /\ \E pr \in Protocols, a \in DialArgs :
       LET r == DialIPSource(a[1], a[2]) IN
       /\ op' = [op EXCEPT ![p] = "DialIP"]
       /\ proto' = [proto EXCEPT ![p] = pr]
       /\ srcArg' = [srcArg EXCEPT ![p] = a[1]]
       /\ srcIP' = [srcIP EXCEPT ![p] = r.srcIP]
       /\ dstIP' = [dstIP EXCEPT ![p] = a[2]]
       /\ iface' = [iface EXCEPT ![p] = r.iface]
       /\ err' = [err EXCEPT ![p] = r.err]
       /\ IF r.err = "none"
          THEN /\ mu = Free
               /\ mu' = p
               /\ ps' = [ps EXCEPT ![p] = pcapSessionMap[r.iface]]
               /\ pc' = [pc EXCEPT ![p] = "d_unlock1"]
          ELSE /\ pc' = [pc EXCEPT ![p] = "done"]
               /\ UNCHANGED <<mu, ps>>
  /\ UNCHANGED <<pcapSessionMap, isClosed, stopChan, closeSigClosed, panicked>>
  /\ startedClosed' = [startedClosed EXCEPT ![p] = history /\ isClosed]
  /\ UNCHANGED <<reaperVars, sessVars, arpVars, conn, closeVars>>

DialIP(p) == DialIPCall(p, FALSE)

\* The same call, with the history variable startedClosed recorded.
DialIPRecorded(p) == DialIPCall(p, TRUE)

\* The lookup with the lock kept: the call goes on to newPcapSession or to
\* ps.dialIP without core.mu.Unlock().
DialLookupKeepsLock(p) ==
  /\ Alive
  /\ pc[p] = "d_unlock1"
  /\ mu = p
  /\ pc' = [pc EXCEPT ![p] = IF ps[p] = NoSession THEN "d_new" ELSE "d_dial"]
  /\ UNCHANGED <<coreVars, reaperVars, sessVars, arpVars, closeVars>>
  /\ UNCHANGED <<op, proto, srcArg, srcIP, dstIP, iface, ps, conn, err, startedClosed>>

\* core.mu.Unlock(); if !exists { ... }
DialLookupUnlock(p) ==
  /\ Alive
  /\ pc[p] = "d_unlock1"
  /\ mu = p
  /\ mu' = Free
  /\ pc' = [pc EXCEPT ![p] = IF ps[p] = NoSession THEN "d_new" ELSE "d_dial"]
  /\ UNCHANGED <<pcapSessionMap, isClosed, stopChan, closeSigClosed, panicked>>
  /\ UNCHANGED <<reaperVars, sessVars, arpVars, closeVars>>
  /\ UNCHANGED <<op, proto, srcArg, srcIP, dstIP, iface, ps, conn, err, startedClosed>>

\* newPcapSession succeeds: a new session for the interface, its handle open
\* and its reader started; it is not in the map yet.
NewSessionOk(p, next) ==
  /\ \E s \in SessionIds : ~Created(s)
  /\ psKey' = [psKey EXCEPT ![FreshSession] = iface[p]]
  /\ psState' = [psState EXCEPT ![FreshSession] = "open"]
  /\ ps' = [ps EXCEPT ![p] = FreshSession]
  /\ pc' = [pc EXCEPT ![p] = next]
  /\ UNCHANGED <<coreVars, reaperVars, rawIPConnMap, flows, arpVars, closeVars>>
  /\ UNCHANGED <<op, proto, srcArg, srcIP, dstIP, iface, conn, err, startedClosed>>

\* The failure path with the store done before the error is looked at: the
\* nil session replaces whatever the map holds for the interface.
NewSessionFailStoresNil(p) ==
  /\ err' = [err EXCEPT ![p] = "SessionCreationFailed"]
  /\ pc' = [pc EXCEPT ![p] = "done"]
  /\ pcapSessionMap' = [pcapSessionMap EXCEPT ![iface[p]] = NoSession]
  /\ UNCHANGED <<mu, isClosed, stopChan, closeSigClosed, panicked>>
  /\ UNCHANGED <<reaperVars, sessVars, arpVars, closeVars>>
  /\ UNCHANGED <<op, proto, srcArg, srcIP, dstIP, iface, ps, conn, startedClosed>>

\* newPcapSession fails: if err != nil { return nil, err }
NewSessionFail(p) ==
  /\ err' = [err EXCEPT ![p] = "SessionCreationFailed"]
  /\ pc' = [pc EXCEPT ![p] = "done"]
  /\ UNCHANGED <<coreVars, reaperVars, sessVars, arpVars, closeVars>>
  /\ UNCHANGED <<op, proto, srcArg, srcIP, dstIP, iface, ps, conn, startedClosed>>

DialNewSession(p) ==
  /\ Alive
  /\ pc[p] = "d_new"
  /\ \/ NewSessionOk(p, "d_insert")
     \/ NewSessionFail(p)

\* core.mu.Lock(); core.pcapSessionMap[iface.Name] = ps
InsertSession(p, next) ==
  /\ mu = Free
  /\ mu' = p
  /\ pcapSessionMap' = [pcapSessionMap EXCEPT ![iface[p]] = ps[p]]
  /\ pc' = [pc EXCEPT ![p] = next]
  /\ UNCHANGED <<isClosed, stopChan, closeSigClosed, panicked>>
  /\ UNCHANGED <<reaperVars, sessVars, arpVars, closeVars>>
  /\ UNCHANGED <<op, proto, srcArg, srcIP, dstIP, iface, ps, conn, err, startedClosed>>

DialInsert(p) ==
  /\ Alive
  /\ pc[p] = "d_insert"
  /\ InsertSession(p, "d_unlock2")

\* core.mu.Unlock() after the insert
DialInsertUnlock(p) ==
  /\ Alive
  /\ pc[p] = "d_unlock2"
  /\ mu = p
  /\ mu' = Free
  /\ pc' = [pc EXCEPT ![p] = "d_dial"]
  /\ UNCHANGED <<pcapSessionMap, isClosed, stopChan, closeSigClosed, panicked>>
  /\ UNCHANGED <<reaperVars, sessVars, arpVars, closeVars>>
  /\ UNCHANGED <<op, proto, srcArg, srcIP, dstIP, iface, ps, conn, err, startedClosed>>

\* ------------------------------------- ARPCache, pcapSession.dialIP (4.2, 4.3)
Waiters(t) == {p \in Callers : pc[p] = "d_wait" /\ NextHop(dstIP[p]) = t}

Bump(n) == IF n < 2 THEN n + 1 ELSE n

\* resolve without step 2: a requester never joins a pending resolution.
ResolveNeverJoins(p, t) ==
  IF t \in arpEntries
  THEN /\ pc' = [pc EXCEPT ![p] = "d_store"]
       /\ UNCHANGED <<arpPending, arpRequests>>
  ELSE /\ pc' = [pc EXCEPT ![p] = "d_wait"]
       /\ arpPending' = [arpPending EXCEPT ![t] = ps[p]]
       /\ arpRequests' = [arpRequests EXCEPT ![ps[p]][t] = Bump(@)]

\* resolve, steps 1 - 3: a hit returns at once, a second requester joins the
\* pending resolution, the first one sends the request on its session.
Resolve(p, t) ==
  IF t \in arpEntries
  THEN /\ pc' = [pc EXCEPT ![p] = "d_store"]
       /\ UNCHANGED <<arpPending, arpRequests>>
  ELSE IF arpPending[t] # NoSession
  THEN /\ pc' = [pc EXCEPT ![p] = "d_wait"]
       /\ UNCHANGED <<arpPending, arpRequests>>
  ELSE /\ pc' = [pc EXCEPT ![p] = "d_wait"]
       /\ arpPending' = [arpPending EXCEPT ![t] = ps[p]]
       /\ arpRequests' = [arpRequests EXCEPT ![ps[p]][t] = Bump(@)]

\* conn, err := ps.dialIP(srcIP, dstIP, protocol): the resolution begins.
DialSessionDial(p) ==
  /\ Alive
  /\ pc[p] = "d_dial"
  /\ Resolve(p, NextHop(dstIP[p]))
  /\ UNCHANGED <<coreVars, reaperVars, sessVars, arpEntries, arpClosed, closeVars>>
  /\ UNCHANGED <<op, proto, srcArg, srcIP, dstIP, iface, ps, conn, err, startedClosed>>

\* resolve, step 4: the reader of the requesting session delivers the
\* response; every waiter of the pending resolution is completed.
ArpReply(t) ==
  /\ Alive
  /\ arpPending[t] # NoSession
  /\ SessionOpen(arpPending[t])
  /\ arpEntries' = arpEntries \cup {t}
  /\ arpPending' = [arpPending EXCEPT ![t] = NoSession]
  /\ pc' = [p \in DOMAIN pc |-> IF p \in Waiters(t) THEN "d_store" ELSE pc[p]]
  /\ UNCHANGED <<coreVars, reaperVars, sessVars, arpRequests, arpClosed, closeVars>>
  /\ UNCHANGED <<op, proto, srcArg, srcIP, dstIP, iface, ps, conn, err, startedClosed>>

\* resolve, step 5 with the timeout tearing down the requesting session: its
\* reader leaves its loop as on a handle failure.
ArpTimeoutClosesSession(t) ==
  /\ Alive
  /\ arpPending[t] # NoSession
  /\ arpPending' = [arpPending EXCEPT ![t] = NoSession]
  /\ pc' = [p \in DOMAIN pc |-> IF p \in Waiters(t) THEN "done" ELSE pc[p]]
  /\ err' = [p \in Callers |-> IF p \in Waiters(t) THEN "AddressResolutionTimeout" ELSE err[p]]
  /\ IF SessionOpen(arpPending[t]) THEN ReaderExit(arpPending[t])
     ELSE UNCHANGED <<psState, flows, panicked>>
  /\ UNCHANGED <<mu, pcapSessionMap, isClosed, stopChan, closeSigClosed>>
  /\ UNCHANGED <<reaperVars, psKey, rawIPConnMap, arpEntries, arpRequests, arpClosed, closeVars>>
  /\ UNCHANGED <<op, proto, srcArg, srcIP, dstIP, iface, ps, conn, startedClosed>>

\* resolve, step 5: the request times out; every waiter gets the error.
ArpTimeout(t) ==
  /\ Alive
  /\ arpPending[t] # NoSession
  /\ arpPending' = [arpPending EXCEPT ![t] = NoSession]
  /\ pc' = [p \in DOMAIN pc |-> IF p \in Waiters(t) THEN "done" ELSE pc[p]]
  /\ err' = [p \in Callers |-> IF p \in Waiters(t) THEN "AddressResolutionTimeout" ELSE err[p]]
  /\ UNCHANGED <<coreVars, reaperVars, sessVars, arpEntries, arpRequests, arpClosed, closeVars>>
  /\ UNCHANGED <<op, proto, srcArg, srcIP, dstIP, iface, ps, conn, startedClosed>>

SameKey(a, b) == a.local = b.local /\ a.remote = b.remote /\ a.proto = b.proto

\* sync.Map.Store(key, conn) on the flow table tbl of a session, the flows
\* being fl: an entry under the same key is replaced.
Store(tbl, fl, f) == {g \in tbl : ~SameKey(fl[g], fl[f])} \cup {f}

\* The end of pcapSession.dialIP, which constructs the flow keyed by
\* (srcIP, dstIP, protocol) once the address is resolved (the new flow is
\* known to nobody but this call), and then
\* ps.rawIPConnMap.Store(conn.getKey(), conn); return conn, nil
DialStore(p) ==
  /\ Alive
  /\ pc[p] = "d_store"
  /\ \E f \in FlowIds : flows[f].state = "none"
  /\ LET f == FreshFlow
         made == [flows EXCEPT ![f] =
           [ps |-> ps[p], local |-> srcIP[p], remote |-> dstIP[p], proto |-> proto[p], state |-> "open"]]
     IN /\ flows' = made
        /\ rawIPConnMap' = [rawIPConnMap EXCEPT ![ps[p]] = Store(@, made, f)]
        /\ conn' = [conn EXCEPT ![p] = f]
  /\ pc' = [pc EXCEPT ![p] = "done"]
  /\ UNCHANGED <<coreVars, reaperVars, psKey, psState, arpVars, closeVars>>
  /\ UNCHANGED <<op, proto, srcArg, srcIP, dstIP, iface, ps, err, startedClosed>>

\* ---------------------------------------------------------------- ListenIP
\* ListenIP up to the first critical section: findInterfaceByIP, and on
\* success core.mu.Lock(); ps, ok := core.pcapSessionMap[psKey]
ListenIPCall(p, history) ==
  /\ Alive
  /\ pc[p] = "idle"
  /\ \E pr \in Protocols, ip \in ListenArgs :
       LET r == findInterfaceByIP(ip) IN
       /\ op' = [op EXCEPT ![p] = "ListenIP"]
       /\ proto' = [proto EXCEPT ![p] = pr]
       /\ srcArg' = [srcArg EXCEPT ![p] = ip]
       /\ srcIP' = [srcIP EXCEPT ![p] = ip]
       /\ iface' = [iface EXCEPT ![p] = r.iface]
       /\ err' = [err EXCEPT ![p] = IF r.err THEN "InterfaceNotFound" ELSE "none"]
       /\ IF ~r.err
          THEN /\ mu = Free
               /\ mu' = p
               /\ ps' = [ps EXCEPT ![p] = pcapSessionMap[r.iface]]
               /\ pc' = [pc EXCEPT ![p] = "l_unlock1"]
          ELSE /\ pc' = [pc EXCEPT ![p] = "done"]
               /\ UNCHANGED <<mu, ps>>
  /\ UNCHANGED <<pcapSessionMap, isClosed, stopChan, closeSigClosed, panicked>>
  /\ startedClosed' = [startedClosed EXCEPT ![p] = history /\ isClosed]
  /\ UNCHANGED <<reaperVars, sessVars, arpVars, dstIP, conn, closeVars>>

ListenIP(p) == ListenIPCall(p, FALSE)

\* The same call, with the history variable startedClosed recorded.
ListenIPRecorded(p) == ListenIPCall(p, TRUE)

\* core.mu.Unlock(); if !ok { ... }
ListenLookupUnlock(p) ==
  /\ Alive
  /\ pc[p] = "l_unlock1"
  /\ mu = p
  /\ mu' = Free
  /\ pc' = [pc EXCEPT ![p] = IF ps[p] = NoSession THEN "l_new" ELSE "l_listen"]
  /\ UNCHANGED <<pcapSessionMap, isClosed, stopChan, closeSigClosed, panicked>>
  /\ UNCHANGED <<reaperVars, sessVars, arpVars, closeVars>>
  /\ UNCHANGED <<op, proto, srcArg, srcIP, dstIP, iface, ps, conn, err, startedClosed>>

ListenNewSession(p) ==
  /\ Alive
  /\ pc[p] = "l_new"
  /\ \/ NewSessionOk(p, "l_insert")
     \/ NewSessionFail(p)

ListenInsert(p) ==
  /\ Alive
  /\ pc[p] = "l_insert"
  /\ InsertSession(p, "l_unlock2")

ListenInsertUnlock(p) ==
  /\ Alive
  /\ pc[p] = "l_unlock2"
  /\ mu = p
  /\ mu' = Free
  /\ pc' = [pc EXCEPT ![p] = "l_listen"]
  /\ UNCHANGED <<pcapSessionMap, isClosed, stopChan, closeSigClosed, panicked>>
  /\ UNCHANGED <<reaperVars, sessVars, arpVars, closeVars>>
  /\ UNCHANGED <<op, proto, srcArg, srcIP, dstIP, iface, ps, conn, err, startedClosed>>

\* conn, err := ps.listenIP(ip, protocol): the flow keyed by
\* (ip, any remote, protocol) is constructed and registered by the session.
ListenSessionListen(p) ==
  /\ Alive
  /\ pc[p] = "l_listen"
  /\ \E f \in FlowIds : flows[f].state = "none"
  /\ LET f == FreshFlow
         made == [flows EXCEPT ![f] =
           [ps |-> ps[p], local |-> srcIP[p], remote |-> Wildcard, proto |-> proto[p], state |-> "open"]]
     IN /\ flows' = made
        /\ rawIPConnMap' = [rawIPConnMap EXCEPT ![ps[p]] = Store(@, made, f)]
        /\ conn' = [conn EXCEPT ![p] = f]
  /\ pc' = [pc EXCEPT ![p] = "done"]
  /\ UNCHANGED <<coreVars, reaperVars, psKey, psState, arpVars, closeVars>>
  /\ UNCHANGED <<op, proto, srcArg, srcIP, dstIP, iface, ps, err, startedClosed>>

\* ------------------------------------------------- handlePcapSessionClose
\* case <-core.stopChan: return (and the deferred core.wg.Done())
ReaperStop ==
  /\ Alive
  /\ reaperPc = "select"
  /\ stopChan
  /\ reaperPc' = "done"
  /\ UNCHANGED <<coreVars, reaperPs, sessVars, arpVars, callVars, closeVars>>

\* case ps := <-core.pcapSessionCloseSig: the blocked reader of s hands over
\* its closed-event and finishes.
ReaperReceive(s) ==
  /\ Alive
  /\ reaperPc = "select"
  /\ psState[s] = "signalling"
  /\ psState' = [psState EXCEPT ![s] = "closed"]
  /\ reaperPs' = s
  /\ reaperPc' = "lock"
  /\ UNCHANGED <<coreVars, psKey, rawIPConnMap, flows, arpVars, callVars, closeVars>>

\* core.mu.Lock(); delete(core.pcapSessionMap, ps.params.key)
ReaperDelete ==
  /\ Alive
  /\ reaperPc = "lock"
  /\ mu = Free
  /\ mu' = Reaper
  /\ pcapSessionMap' = [pcapSessionMap EXCEPT ![psKey[reaperPs]] = NoSession]
  /\ reaperPc' = "unlock"
  /\ UNCHANGED <<isClosed, stopChan, closeSigClosed, panicked>>
  /\ UNCHANGED <<reaperPs, sessVars, arpVars, callVars, closeVars>>

\* core.mu.Unlock(), and back to the select
ReaperUnlock ==
  /\ Alive
  /\ reaperPc = "unlock"
  /\ mu = Reaper
  /\ mu' = Free
  /\ reaperPc' = "select"
  /\ reaperPs' = NoSession
  /\ UNCHANGED <<pcapSessionMap, isClosed, stopChan, closeSigClosed, panicked>>
  /\ UNCHANGED <<sessVars, arpVars, callVars, closeVars>>

\* ------------------------------------------------------------------- Close
\* if core.isClosed { return }
CloseCheck(c) ==
  /\ Alive
  /\ pc[c] = "idle"
  /\ pc' = [pc EXCEPT ![c] = IF isClosed THEN "returned_early" ELSE "c_set"]
  /\ UNCHANGED <<coreVars, reaperVars, sessVars, arpVars, closeVars>>
  /\ UNCHANGED <<op, proto, srcArg, srcIP, dstIP, iface, ps, conn, err, startedClosed>>

\* core.isClosed = true
CloseSetClosed(c) ==
  /\ Alive
  /\ pc[c] = "c_set"
  /\ isClosed' = TRUE
  /\ pc' = [pc EXCEPT ![c] = "c_snapshot"]
  /\ UNCHANGED <<mu, pcapSessionMap, stopChan, closeSigClosed, panicked>>
  /\ UNCHANGED <<reaperVars, sessVars, arpVars, closeVars>>
  /\ UNCHANGED <<op, proto, srcArg, srcIP, dstIP, iface, ps, conn, err, startedClosed>>

\* core.mu.Lock(); for _, session := range core.pcapSessionMap { append }
CloseSnapshot(c) ==
  /\ Alive
  /\ pc[c] = "c_snapshot"
  /\ mu = Free
  /\ mu' = c
  /\ pcapSessions' = [pcapSessions EXCEPT ![c] = {pcapSessionMap[i] : i \in Ifaces} \ {NoSession}]
  /\ pc' = [pc EXCEPT ![c] = "c_unlock"]
  /\ UNCHANGED <<pcapSessionMap, isClosed, stopChan, closeSigClosed, panicked>>
  /\ UNCHANGED <<reaperVars, sessVars, arpVars, closing>>
  /\ UNCHANGED <<op, proto, srcArg, srcIP, dstIP, iface, ps, conn, err, startedClosed>>

\* core.mu.Unlock()
CloseUnlock(c) ==
  /\ Alive
  /\ pc[c] = "c_unlock"
  /\ mu = c
  /\ mu' = Free
  /\ pc' = [pc EXCEPT ![c] = "c_sessions"]
  /\ UNCHANGED <<pcapSessionMap, isClosed, stopChan, closeSigClosed, panicked>>
  /\ UNCHANGED <<reaperVars, sessVars, arpVars, closeVars>>
  /\ UNCHANGED <<op, proto, srcArg, srcIP, dstIP, iface, ps, conn, err, startedClosed>>

\* pcapSession.close, first half: the handle is closed, which makes the reader
\* of an open session leave its loop; closing a closed session changes nothing.
SessionCloseHandle(s) ==
  IF SessionOpen(s) THEN ReaderExit(s)
  ELSE UNCHANGED <<psState, flows, panicked>>

\* for _, session := range pcapSessions { session.close() }: the call begins
CloseSessionBegin(c) ==
  /\ Alive
  /\ pc[c] = "c_sessions"
  /\ \E s \in pcapSessions[c] :
       /\ SessionCloseHandle(s)
       /\ closing' = [closing EXCEPT ![c] = s]
       /\ pcapSessions' = [pcapSessions EXCEPT ![c] = @ \ {s}]
  /\ pc' = [pc EXCEPT ![c] = "c_join"]
  /\ UNCHANGED <<mu, pcapSessionMap, isClosed, stopChan, closeSigClosed>>
  /\ UNCHANGED <<reaperVars, psKey, rawIPConnMap, arpVars>>
  /\ UNCHANGED <<op, proto, srcArg, srcIP, dstIP, iface, ps, conn, err, startedClosed>>

\* pcapSession.close, second half: it returns once the reader has finished.
CloseSessionJoin(c) ==
  /\ Alive
  /\ pc[c] = "c_join"
  /\ psState[closing[c]] = "closed"
  /\ closing' = [closing EXCEPT ![c] = NoSession]
  /\ pc' = [pc EXCEPT ![c] = "c_sessions"]
  /\ UNCHANGED <<coreVars, reaperVars, sessVars, arpVars, pcapSessions>>
  /\ UNCHANGED <<op, proto, srcArg, srcIP, dstIP, iface, ps, conn, err, startedClosed>>

\* close(core.stopChan): closing a closed channel panics.
CloseStopChan(c) ==
  /\ Alive
  /\ pc[c] = "c_sessions"
  /\ pcapSessions[c] = {}
  /\ IF stopChan
     THEN /\ panicked' = "close of closed channel"
          /\ UNCHANGED <<stopChan, pc>>
     ELSE /\ stopChan' = TRUE
          /\ pc' = [pc EXCEPT ![c] = "c_wait"]
          /\ UNCHANGED panicked
  /\ UNCHANGED <<mu, pcapSessionMap, isClosed, closeSigClosed>>
  /\ UNCHANGED <<reaperVars, sessVars, arpVars, closeVars>>
  /\ UNCHANGED <<op, proto, srcArg, srcIP, dstIP, iface, ps, conn, err, startedClosed>>

\* core.wg.Wait() returns once the reaper has returned; then
\* close(core.pcapSessionCloseSig): closing a closed channel panics, and so
\* does a reader that is blocked sending its closed-event on it.
CloseSig(c) ==
  /\ Alive
  /\ pc[c] = "c_wait"
  /\ reaperPc = "done"
  /\ IF closeSigClosed
     THEN /\ panicked' = "close of closed channel"
          /\ UNCHANGED <<closeSigClosed, pc>>
     ELSE /\ closeSigClosed' = TRUE
          /\ pc' = [pc EXCEPT ![c] = "c_arp"]
          /\ panicked' = IF \E s \in SessionIds : psState[s] = "signalling"
                         THEN "send on closed channel" ELSE panicked
  /\ UNCHANGED <<mu, pcapSessionMap, isClosed, stopChan>>
  /\ UNCHANGED <<reaperVars, sessVars, arpVars, closeVars>>
  /\ UNCHANGED <<op, proto, srcArg, srcIP, dstIP, iface, ps, conn, err, startedClosed>>

\* core.arpCache.Close(), and Close returns.  ARPCache.Close fails the
\* outstanding resolutions and clears the cache.
CloseArpCache(c) ==
  /\ Alive
  /\ pc[c] = "c_arp"
  /\ arpClosed' = TRUE
  /\ arpEntries' = {}
  /\ arpPending' = [t \in Targets |-> NoSession]
  /\ err' = [p \in Callers |-> IF pc[p] = "d_wait" THEN "CacheClosed" ELSE err[p]]
  /\ pc' = [p \in DOMAIN pc |-> IF p = c THEN "returned"
                                ELSE IF pc[p] = "d_wait" THEN "done" ELSE pc[p]]
  /\ UNCHANGED <<coreVars, reaperVars, sessVars, arpRequests, closeVars>>
  /\ UNCHANGED <<op, proto, srcArg, srcIP, dstIP, iface, ps, conn, startedClosed>>

\* ------------------------------------------------------------ specification
\* The steps of a call of DialIP or ListenIP after its entry.
CallerNext(p) ==
  \/ DialLookupUnlock(p) \/ DialNewSession(p) \/ DialInsert(p)
  \/ DialInsertUnlock(p) \/ DialSessionDial(p) \/ DialStore(p)
  \/ ListenLookupUnlock(p) \/ ListenNewSession(p) \/ ListenInsert(p)
  \/ ListenInsertUnlock(p) \/ ListenSessionListen(p)

\* The steps of a call of Close.
CloserNext(c) ==
  \/ CloseCheck(c) \/ CloseSetClosed(c) \/ CloseSnapshot(c) \/ CloseUnlock(c)
  \/ CloseSessionBegin(c) \/ CloseSessionJoin(c) \/ CloseStopChan(c)
  \/ CloseSig(c) \/ CloseArpCache(c)

\* The reaper, the capture handles, the network and the owners of the flows.
EnvNext ==
  \/ ReaperStop \/ ReaperDelete \/ ReaperUnlock
  \/ \E s \in SessionIds : ReaperReceive(s) \/ HandleFailure(s)
  \/ \E t \in Targets : ArpReply(t) \/ ArpTimeout(t)
  \/ \E f \in FlowIds : FlowClose(f)

\* NumCallers concurrent calls of DialIP / ListenIP and one call of Close.
Next ==
  \/ \E p \in Callers : DialIP(p) \/ ListenIP(p) \/ CallerNext(p)
  \/ CloserNext(FirstCloser)
  \/ EnvNext

Spec == Init /\ [][Next]_vars

\* The scheduler runs every goroutine that can take a step: a call of DialIP
\* or ListenIP that has been entered, a call of Close, and the reaper.  The
\* capture handles, the network and the owners of the flows are not obliged
\* to do anything.
ReaperNext ==
  \/ ReaperStop \/ ReaperDelete \/ ReaperUnlock
  \/ \E s \in SessionIds : ReaperReceive(s)

Fairness ==
  /\ \A p \in Callers : WF_vars(CallerNext(p))
  /\ \A c \in Closers : WF_vars(CloserNext(c))
  /\ WF_vars(ReaperNext)

SpecFair == Init /\ [][Next]_vars /\ Fairness

\* One call of DialIP / ListenIP, which records whether it was entered after
\* the closed flag was set, and NumClosers concurrent calls of Close.
NextClose ==
  \/ DialIPRecorded(FirstCaller) \/ ListenIPRecorded(FirstCaller)
  \/ CallerNext(FirstCaller)
  \/ \E c \in Closers : CloserNext(c)
  \/ EnvNext

SpecClose == Init /\ [][NextClose]_vars

\* ------------------------------------------------------------------ claims
InMap(s) == \E i \in Ifaces : pcapSessionMap[i] = s

\* C1: concurrent DialIP / ListenIP calls on one interface never have two
\* capture sessions of that interface open at the same time.
C1_OneOpenSessionPerInterface ==
  \A s1, s2 \in SessionIds :
    (SessionOpen(s1) /\ SessionOpen(s2) /\ psKey[s1] = psKey[s2]) => s1 = s2

\* C2: two calls of Close, one after the other or concurrent, never panic by
\* closing stopChan or pcapSessionCloseSig a second time.
C2_CloseIdempotent == panicked # "close of closed channel"

\* C3: a call of DialIP or ListenIP that is entered after Close has set the
\* closed flag creates no capture session and inserts none into
\* pcapSessionMap.
C3_NoSessionAfterClosed ==
  \A p \in Callers :
    startedClosed[p] => pc[p] \notin {"d_insert", "d_unlock2", "l_insert", "l_unlock2"}

\* C4: when a call of Close returns after the teardown, no capture session
\* that the core created is still open.
C4_CloseClosesEverySession ==
  [][\A c \in Closers :
       (pc[c] # "returned" /\ pc'[c] = "returned") =>
         \A s \in SessionIds : ~SessionOpen(s)']_vars

\* C5: a session that closed while the core is not shut down does not stay
\* registered: once the reaper has handled its closed-event (the only thing
\* that ever removes it), it is not in pcapSessionMap.
C5_ClosedSessionReaped ==
  \A s \in SessionIds :
    (~isClosed /\ psState[s] = "closed" /\ reaperPs # s) => ~InMap(s)

\* C6: the reaper's delete removes no entry that refers to another, still
\* open session than the one that announced its closure.
C6_ReaperRemovesOnlyItsSession ==
  [][(reaperPc = "lock" /\ reaperPc' = "unlock") =>
       \A i \in Ifaces :
         (pcapSessionMap[i] \notin {NoSession, reaperPs} /\ SessionOpen(pcapSessionMap[i]))
           => pcapSessionMap'[i] = pcapSessionMap[i]]_vars

\* C7: every flow that DialIP stored in the flow table of a closed session is
\* Closed.
C7_FlowsOfClosedSessionClosed ==
  \A s \in SessionIds :
    SessionClosed(s) =>
      \A f \in rawIPConnMap[s] : flows[f].remote # Wildcard => flows[f].state = "closed"

\* C8, as claimed: no more than one resolution request is ever sent for a
\* (session, address) pair.
C8_OneRequestPerSessionAddress ==
  \A s \in SessionIds : \A t \in Targets : arpRequests[s][t] <= 1

\* C8, amended: a request is sent only for an address that is neither cached
\* nor pending (so at most one is in flight per address at a time), and the
\* calls that wait on one pending resolution are completed together, with
\* the same outcome.
C8_OneRequestInFlight ==
  [][/\ \A s \in SessionIds : \A t \in Targets :
          arpRequests'[s][t] # arpRequests[s][t] =>
            (arpPending[t] = NoSession /\ t \notin arpEntries /\ arpPending'[t] = s)
     /\ \A t \in Targets : \A p, q \in Waiters(t) :
          pc'[p] = pc'[q] /\ err'[p] = err'[q]]_vars

\* Two calls wait on one pending resolution, for which one request was sent.
C8_Witness ==
  \E t \in Targets :
    /\ Cardinality(Waiters(t)) >= 2
    /\ arpPending[t] # NoSession
    /\ \A s \in SessionIds : arpRequests[s][t] = IF s = arpPending[t] THEN 1 ELSE 0

\* C9: a DialIP call without a source address that returns a flow returns one
\* whose local address is the source address the route resolver gave for the
\* destination, on a session of the interface the resolver gave.
C9_LocalAddressFromResolver ==
  \A p \in Callers :
    (pc[p] = "done" /\ op[p] = "DialIP" /\ srcArg[p] = NoIP /\ err[p] = "none") =>
      /\ conn[p] # NoFlow
      /\ flows[conn[p]].local = GetLocalIP(dstIP[p]).srcIP
      /\ flows[conn[p]].remote = dstIP[p]
      /\ flows[conn[p]].ps = ps[p]
      /\ psKey[ps[p]] = GetLocalIP(dstIP[p]).iface

\* DialIP(icmp, nil, dB) has returned a flow (dB is routed through a gateway).
C9_Witness ==
  \E p \in Callers :
    /\ pc[p] = "done" /\ op[p] = "DialIP" /\ srcArg[p] = NoIP /\ err[p] = "none"
    /\ dstIP[p] = "dB"
    /\ conn[p] # NoFlow

\* C10: the step in which newPcapSession fails returns the error, returns no
\* flow, creates no session object and leaves pcapSessionMap as it was.
C10_FailedSessionNotInserted ==
  [][\A p \in Callers :
       (pc[p] \in {"d_new", "l_new"} /\ pc'[p] = "done") =>
         /\ err'[p] = "SessionCreationFailed"
         /\ conn'[p] = NoFlow
         /\ ps'[p] = NoSession
         /\ psState' = psState
         /\ pcapSessionMap' = pcapSessionMap]_vars

\* newPcapSession has failed in a call while another session is registered.
C10_Witness ==
  \E p \in Callers :
    /\ pc[p] = "done" /\ err[p] = "SessionCreationFailed"
    /\ \E i \in Ifaces : pcapSessionMap[i] # NoSession

\* C11: the step in which a resolution times out inside DialIP fails only the
\* calls that wait on it: each returns AddressResolutionTimeout and no flow,
\* no flow table changes, and no session is closed or removed from
\* pcapSessionMap by it.
C11_TimeoutFailsOnlyTheCall ==
  [][\A p \in Callers :
       (pc[p] = "d_wait" /\ pc'[p] = "done" /\ arpClosed' = arpClosed) =>
         /\ err'[p] = "AddressResolutionTimeout"
         /\ conn'[p] = NoFlow
         /\ rawIPConnMap' = rawIPConnMap
         /\ flows' = flows
         /\ psState' = psState
         /\ pcapSessionMap' = pcapSessionMap]_vars

\* A DialIP call has returned AddressResolutionTimeout; its session is open,
\* registered, and its flow table is empty.
C11_Witness ==
  \E p \in Callers :
    /\ pc[p] = "done" /\ err[p] = "AddressResolutionTimeout"
    /\ SessionOpen(ps[p]) /\ pcapSessionMap[iface[p]] = ps[p]
    /\ rawIPConnMap[ps[p]] = {}
    /\ conn[p] = NoFlow

\* C12: a call whose address or interface lookup fails (DialIP with the
\* source address ipX that no interface owns, DialIP to dN for which route
\* selection fails, ListenIP on ipX) returns the error in its first step,
\* without taking the lock, creating a session, inserting into
\* pcapSessionMap or registering a flow.
C12_LookupFailureHasNoEffect ==
  [][\A p \in Callers :
       (/\ pc[p] = "idle" /\ pc'[p] # "idle"
        /\ \/ op'[p] = "DialIP" /\ srcArg'[p] = "ipX"
           \/ op'[p] = "DialIP" /\ srcArg'[p] = NoIP /\ dstIP'[p] = "dN"
           \/ op'[p] = "ListenIP" /\ srcArg'[p] = "ipX") =>
         /\ pc'[p] = "done"
         /\ err'[p] = (IF op'[p] = "ListenIP" THEN "InterfaceNotFound"
                       ELSE IF srcArg'[p] = NoIP THEN "NoRoute" ELSE "NotLocalAddress")
         /\ conn'[p] = NoFlow /\ ps'[p] = NoSession
         /\ mu' = mu
         /\ pcapSessionMap' = pcapSessionMap
         /\ psState' = psState
         /\ rawIPConnMap' = rawIPConnMap
         /\ flows' = flows]_vars

\* A DialIP call with a source address that is not local and a ListenIP call
\* on an address that no interface owns have both returned their errors.
C12_Witness ==
  \E p, q \in Callers :
    /\ pc[p] = "done" /\ op[p] = "DialIP" /\ err[p] = "NotLocalAddress"
    /\ pc[q] = "done" /\ op[q] = "ListenIP" /\ err[q] = "InterfaceNotFound"
    /\ \A s \in SessionIds : ~Created(s)

\* C13: in every state in which the resolution cache has been closed, no
\* session is open and no DialIP call is inside the session's address
\* resolution.
C13_CacheReleasedLast ==
  arpClosed =>
    /\ \A s \in SessionIds : ~SessionOpen(s)
    /\ \A p \in Callers : pc[p] \notin {"d_dial", "d_wait"}

\* C14: no session sends, or stays blocked sending, its closed-event on
\* pcapSessionCloseSig once the reaper has stopped or the channel is closed.
C14_NoClosedEventLost ==
  /\ panicked # "send on closed channel"
  /\ \A s \in SessionIds :
       psState[s] = "signalling" => (reaperPc # "done" /\ ~closeSigClosed)

\* C15: every flow that a DialIP call returned and that is still open is in
\* the flow table of its owning session (a later DialIP with the same key
\* does not displace it).
C15_ReturnedFlowStaysStored ==
  \A p \in Callers :
    (pc[p] = "done" /\ op[p] = "DialIP" /\ conn[p] # NoFlow /\ flows[conn[p]].state = "open") =>
      conn[p] \in rawIPConnMap[flows[conn[p]].ps]

\* C16: under fair scheduling every call of Close that has been entered
\* eventually returns.
C16_CloseTerminates ==
  \A c \in Closers : (pc[c] # "idle") ~> (pc[c] \in {"returned", "returned_early"})

\* The goroutine that holds core.mu is exactly the one that stands between
\* its access to pcapSessionMap and the Unlock that follows it.
LockHeldAcrossAccessOnly ==
  /\ \A p \in Callers :
       mu = p <=> pc[p] \in {"d_unlock1", "d_unlock2", "l_unlock1", "l_unlock2"}
  /\ \A c \in Closers : mu = c <=> pc[c] = "c_unlock"
  /\ mu = Reaper <=> reaperPc = "unlock"

\* C17: every lookup, insert, delete and snapshot of pcapSessionMap is made
\* by a goroutine that has just taken core.mu and still holds it, and a
\* goroutine never holds core.mu while it opens a capture session
\* (newPcapSession), awaits the address resolution (dialIP) or closes a
\* session.
C17_LockDiscipline ==
  [][/\ LockHeldAcrossAccessOnly /\ LockHeldAcrossAccessOnly'
     /\ pcapSessionMap' # pcapSessionMap => (mu = Free /\ mu' # Free)
     /\ \A p \in Callers : ps'[p] # ps[p] /\ pc'[p] \in {"d_unlock1", "l_unlock1"} => mu' = p
     /\ \A c \in Closers : pcapSessions'[c] # pcapSessions[c] /\ pc[c] = "c_snapshot" => mu' = c]_vars

\* One call holds core.mu for its insert while another call, which does not
\* hold it, awaits its address resolution.
C17_Witness ==
  \E p, q \in Callers :
    /\ mu = p /\ pc[p] \in {"d_unlock2", "l_unlock2"}
    /\ pcapSessionMap[iface[p]] = ps[p]
    /\ pc[q] = "d_wait"

====
